---- MODULE Spec2Model ----
(***************************************************************************)
(* Model of update_prices.py: the YAML price updater.                      *)
(*                                                                         *)
(* The document is kept as the structure the regular expressions of        *)
(* update_yaml_file see: a header (the usd_to_eur literal and the          *)
(* last_update string) followed by the position blocks in text order.      *)
(* A numeric literal is its digits: [n |-> 5000, d |-> 2] is the text      *)
(* "50.00", so "50.00" and "50.00000" are different texts of equal value.  *)
(* Money is counted in micro-euros (1e-6), the rate in units of 1e-5:      *)
(* one digit finer than what the program writes (.5f and .4f), so that     *)
(* formatting rounds.  Arithmetic is exact decimal arithmetic.             *)
(***************************************************************************)
EXTENDS Integers, Sequences, FiniteSets, TLC

\* disk: the file at yaml_path.  pc, exit: where main is and what it
\* returned.  dry_run, no_targets: the arguments.  positions, usd_to_eur,
\* prices, targets: what main loaded and fetched.  today, original_content,
\* content, changes, target_changes: the locals of the last call of
\* update_yaml_file.  Bookkeeping: wrote (the last call reached
\* write_text), updated (update_yaml_file has been called), rerun (the last
\* call repeated the one before it), disk_before (the file before the last
\* call).
\* Used by the step-by-step specification only: idx (the index of the loop
\* "for pos in positions"), todo (the tickers a fetch loop has still to
\* try) and attempts (per ticker, the outcomes of the tries made so far).
\* preview: the result of a dry run kept for comparison.  history, saves,
\* last: the history file of save_history, the number of calls made and
\* the date and summary of the latest call.
VARIABLES disk, pc, exit, dry_run, no_targets, positions, usd_to_eur,
          prices, targets, today, original_content, content, changes,
          target_changes, wrote, updated, rerun, disk_before,
          idx, todo, attempts, preview, history, saves, last

stepvars == <<idx, todo, attempts>>
histvars == <<history, saves, last>>
aux == <<stepvars, preview, histvars>>

vars == <<disk, pc, exit, dry_run, no_targets, positions, usd_to_eur,
          prices, targets, today, original_content, content, changes,
          target_changes, wrote, updated, rerun, disk_before, aux>>

\* ---------------------------------------------------------------- bounds
MaxRecords == 2
MaxSaves == 3

\* ------------------------------------------------------------- constants
NoDate == "None"
RATE_TOLERANCE == 100
PRICE_TOLERANCE == 10000
RATE_DECIMALS == 4
PRICE_DECIMALS == 5
\* the model counts one decimal digit finer than the program writes
RATE_UNIT_DECIMALS == RATE_DECIMALS + 1
MONEY_UNIT_DECIMALS == PRICE_DECIMALS + 1

Fields == {"current_price_eur", "target_high_eur", "target_low_eur"}

\* ------------------------------------------------------------ arithmetic
RECURSIVE Pow10(_)
Pow10(k) == IF k = 0 THEN 1 ELSE 10 * Pow10(k - 1)

Abs(x) == IF x < 0 THEN -x ELSE x

\* float(match.group(..)): the value of a literal, in units of 10^-unit
LitValue(l, unit) == l.n * Pow10(unit - l.d)

\* An exact value: w units plus f/100000 of a unit, 0 <= f < 100000
Exact(w) == [w |-> w, f |-> 0]

\* price_raw * usd_to_eur, exactly: P micro-euros times R/100000
MulRate(P, R) ==
    LET a == P \div 100000
        b == P % 100000
        c == R \div 1000
        e == R % 1000
        X == b * c
        Y == b * e
        t == 1000 * (X % 100) + Y
    IN  [w |-> a * R + (X \div 100) + (t \div 100000), f |-> t % 100000]

\* abs(old - new) > tolerance
ExceedsStrict(old, new, tol) ==
    IF new.w >= old
    THEN (new.w - old > tol) \/ (new.w - old = tol /\ new.f > 0)
    ELSE old - new.w > tol

ExceedsOrEqual(old, new, tol) ==
    IF new.w >= old
    THEN new.w - old >= tol
    ELSE (old - new.w > tol) \/ (old - new.w = tol /\ new.f = 0)

Exceeds(old, new, tol) == ExceedsStrict(old, new, tol)

\* round(v / k) to the nearest integer, ties to even (k even)
RoundDiv(v, k) ==
    LET q == v.w \div k
        r == v.w % k
    IN  IF 2 * r > k \/ (2 * r = k /\ (v.f > 0 \/ q % 2 = 1))
        THEN q + 1 ELSE q

\* f"{x:.4f}" and f"{x:.5f}": the literal written into the text
FormatRate(R) ==
    [n |-> RoundDiv(Exact(R), Pow10(RATE_UNIT_DECIMALS - RATE_DECIMALS)),
     d |-> RATE_DECIMALS]

FormatMoney(v) ==
    [n |-> RoundDiv(v, Pow10(MONEY_UNIT_DECIMALS - PRICE_DECIMALS)),
     d |-> PRICE_DECIMALS]

\* f"{x:.2f}" of the change report, in cents
Format2(v) == RoundDiv(v, Pow10(MONEY_UNIT_DECIMALS - 2))

\* ------------------------------------------------------------- documents
Lit(n, d) == [n |-> n, d |-> d]

\* a field (or header key) that is not in the text
NoLit == [n |-> -1, d |-> 0]

\* One position block of the YAML text.  plain: the block starts with the
\* text "- ticker: <ticker>" followed by white space, the only form the
\* patterns of update_yaml_file match (a quoted ticker does not).
\* yahoo_ticker "" and currency "" stand for an absent key.  The yahoo_ticker
\* of "A" differs from its ticker, that of "B" is the ticker itself.
Block(t, pl, y, c, o, p, h, l) ==
    [ticker |-> t, plain |-> pl, yahoo_ticker |-> y, currency |-> c,
     is_open |-> o, current_price_eur |-> p, target_high_eur |-> h,
     target_low_eur |-> l]

Templates ==
    { Block("A", TRUE, "YA", "EUR", TRUE, Lit(5000, 2), Lit(6000, 2), Lit(4000, 2)),
      Block("B", TRUE, "B", "USD", TRUE, Lit(4000, 2), Lit(5000, 2), Lit(3000, 2)),
      Block("A", TRUE, "YA", "EUR", FALSE, Lit(5000, 2), Lit(6000, 2), Lit(4000, 2)),
      Block("B", TRUE, "", "", TRUE, Lit(4000, 2), Lit(5000, 2), Lit(3000, 2)),
      Block("A", TRUE, "YA", "", TRUE, NoLit, NoLit, Lit(4000, 2)),
      Block("B", FALSE, "B", "USD", TRUE, Lit(4000, 2), Lit(5000, 2), Lit(3000, 2)) }

Dates == {"2026-01-01", "2026-01-02"}

Headers == { [rate |-> Lit(85, 2), date |-> "2026-01-01"] }

Doc(h, rs) == [rate |-> h.rate, date |-> h.date, recs |-> rs]

Docs ==
    { Doc(h, rs) : h \in Headers,
                   rs \in UNION { [1..k -> Templates] : k \in 1..MaxRecords } }

EmptyDoc == [rate |-> NoLit, date |-> NoDate, recs |-> <<>>]

\* the file at yaml_path
File(doc) == [exists |-> TRUE, text |-> doc]
NoFile == [exists |-> FALSE, text |-> EmptyDoc]

\* --------------------------------------------------------- observations
RateObs == {85000, 85100, 85110}
RateFailed == 0
\* prices the source may report for a ticker, in micro-euros
PriceObs(y) == IF y = "YA" THEN {50010000, 50010010} ELSE {100000000}
\* target_data: high / low in micro-euros, 0 when the key is missing
TargetObs(y) ==
    IF y = "YA"
    THEN { [high |-> 60010010, low |-> 40010000],
           [high |-> 0, low |-> 30000000] }
    ELSE { [high |-> 70000000, low |-> 0] }

NoPrices == [y \in {} |-> 0]
NoTargets == [fetched |-> FALSE, data |-> [y \in {} |-> [high |-> 0, low |-> 0]]]

\* ------------------------------------------------- load_positions_from_yaml
load_positions_from_yaml(doc) ==
    [i \in 1..Len(doc.recs) |->
        [ticker |-> doc.recs[i].ticker,
         yahoo_ticker |-> doc.recs[i].yahoo_ticker,
         currency |-> IF doc.recs[i].currency = "" THEN "EUR"
                      ELSE doc.recs[i].currency,
         is_open |-> doc.recs[i].is_open]]

\* ------------------------------------------------------ pattern matching
Min(S) == CHOOSE x \in S : \A y \in S : x <= y

\* first block at or after from that starts with "- ticker: <t>", 0 if none
FirstMarkerAnyForm(recs, t, from) ==
    LET S == { i \in from..Len(recs) : recs[i].ticker = t }
    IN  IF S = {} THEN 0 ELSE Min(S)

FirstMarker(recs, t, from) ==
    LET S == { i \in from..Len(recs) : recs[i].plain /\ recs[i].ticker = t }
    IN  IF S = {} THEN 0 ELSE Min(S)

\* first block at or after from holding "<f>: <number>", 0 if none
FirstField(recs, f, from) ==
    LET S == { j \in from..Len(recs) : recs[j][f] # NoLit }
    IN  IF S = {} THEN 0 ELSE Min(S)

\* the text "(- ticker: <t>\s+.*?<f>:\s*)([\d.]+)" matches with re.DOTALL,
\* scanning from block from: the block whose literal is group 2, 0 if none.
\* The lazy .*? runs over block boundaries up to the first <f>.
MatchFrom(recs, t, f, from) ==
    LET i == FirstMarker(recs, t, from)
    IN  IF i = 0 THEN 0 ELSE FirstField(recs, f, i)

\* re.search(pattern, content, re.DOTALL)
Search(recs, t, f) == MatchFrom(recs, t, f, 1)

\* re.sub(pattern, "\g<1>" + lit, content, flags=re.DOTALL): every
\* non-overlapping match, left to right
RECURSIVE SubFrom(_, _, _, _, _)
SubFrom(recs, t, f, lit, from) ==
    LET j == MatchFrom(recs, t, f, from)
    IN  IF j = 0 THEN recs
        ELSE SubFrom([recs EXCEPT ![j][f] = lit], t, f, lit, j + 1)

Sub(recs, t, f, lit) == SubFrom(recs, t, f, lit, 1)

\* ------------------------------------------------------ update_yaml_file
\* The state of one pass: the in-memory text and the two change lists.
\* An entry carries what the printed line carries (label, old and new
\* value) and, as bookkeeping only, the index pos of the position whose
\* loop iteration appended it (0 for the rate) and the field patched.
Pass(c) == [content |-> c, changes |-> <<>>, target_changes |-> <<>>]

\* "Update USD/EUR rate"
PatchRate(st, rate) ==
    LET old == st.content.rate
    IN  IF old # NoLit /\ Exceeds(LitValue(old, RATE_UNIT_DECIMALS), Exact(rate), RATE_TOLERANCE)
        THEN [st EXCEPT
                !.content.rate = FormatRate(rate),
                !.changes = Append(@,
                    [pos |-> 0, id |-> "USD/EUR", field |-> "usd_to_eur",
                     old |-> RoundDiv(Exact(LitValue(old, RATE_UNIT_DECIMALS)), 10),
                     new |-> FormatRate(rate).n])]
        ELSE st

\* "Update last_update date"
PatchDateNever(st, day) == st
PatchDateIfChanged(st, day) ==
    IF st.content.date # NoDate /\ st.changes # <<>>
    THEN [st EXCEPT !.content.date = day]
    ELSE st
PatchDate(st, day) ==
    IF st.content.date # NoDate
    THEN [st EXCEPT !.content.date = day]
    ELSE st

\* "if not yahoo_ticker or not is_open: continue"
EligibleEither(pos) == pos.yahoo_ticker # "" \/ pos.is_open
Eligible(pos) == pos.yahoo_ticker # "" /\ pos.is_open

\* "x_eur = x_raw * usd_to_eur if needs_conversion else x_raw"
ConvertNever(raw, rate, currency) == Exact(raw)
Convert(raw, rate, currency) ==
    IF currency = "USD" THEN MulRate(raw, rate) ELSE Exact(raw)

\* search, compare and substitute one field of the position being processed
PatchField(st, i, pos, f, raw, rate) ==
    LET recs == st.content.recs
        new == Convert(raw, rate, pos.currency)
        j == Search(recs, pos.ticker, f)
        old == LitValue(recs[j][f], MONEY_UNIT_DECIMALS)
        entry == [pos |-> i, id |-> pos.ticker, field |-> f,
                  old |-> Format2(Exact(old)), new |-> Format2(new)]
    IN  IF j # 0 /\ Exceeds(old, new, PRICE_TOLERANCE)
        THEN IF f = "current_price_eur"
             THEN [st EXCEPT
                     !.content.recs = Sub(recs, pos.ticker, f, FormatMoney(new)),
                     !.changes = Append(@, entry)]
             ELSE [st EXCEPT
                     !.content.recs = Sub(recs, pos.ticker, f, FormatMoney(new)),
                     !.target_changes = Append(@, entry)]
        ELSE st

\* "Update current price if available"
PatchPrice(st, i, pos, prs, rate) ==
    IF pos.yahoo_ticker \in DOMAIN prs
    THEN PatchField(st, i, pos, "current_price_eur", prs[pos.yahoo_ticker], rate)
    ELSE st

\* targets patched only when both high and low were reported
PatchTargetsBoth(st, i, pos, tgs, rate) ==
    IF tgs.fetched /\ pos.yahoo_ticker \in DOMAIN tgs.data
    THEN LET td == tgs.data[pos.yahoo_ticker]
         IN  IF td.high # 0 /\ td.low # 0
             THEN PatchField(PatchField(st, i, pos, "target_high_eur", td.high, rate),
                             i, pos, "target_low_eur", td.low, rate)
             ELSE st
    ELSE st

\* "Update analyst targets if available"
PatchTargets(st, i, pos, tgs, rate) ==
    IF tgs.fetched /\ pos.yahoo_ticker \in DOMAIN tgs.data
    THEN LET td == tgs.data[pos.yahoo_ticker]
             s1 == IF td.high # 0
                   THEN PatchField(st, i, pos, "target_high_eur", td.high, rate)
                   ELSE st
         IN  IF td.low # 0
             THEN PatchField(s1, i, pos, "target_low_eur", td.low, rate)
             ELSE s1
    ELSE st

\* one iteration of "for pos in positions"
ProcessPosition(st, i, pos, prs, tgs, rate) ==
    IF ~Eligible(pos) THEN st
    ELSE PatchTargets(PatchPrice(st, i, pos, prs, rate), i, pos, tgs, rate)

\* the loop over positions, from position i on
RECURSIVE ProcessFrom(_, _, _, _, _, _)
ProcessFrom(st, i, poss, prs, tgs, rate) ==
    IF i > Len(poss) THEN st
    ELSE ProcessFrom(ProcessPosition(st, i, poss[i], prs, tgs, rate),
                     i + 1, poss, prs, tgs, rate)

\* the pass of update_yaml_file over the text read from yaml_path
UpdatePass(text, poss, prs, rate, tgs, day) ==
    ProcessFrom(PatchDate(PatchRate(Pass(text), rate), day), 1, poss, prs, tgs, rate)

\* "if not dry_run and content != original_content"
ShouldWriteAlways(dry, new, orig) == new # orig
ShouldWriteUnchanged(dry, new, orig) == ~dry
ShouldWrite(dry, new, orig) == ~dry /\ new # orig

\* ------------------------------------------------------------------ main
\* pc is the position of main: "start", "load", "rate", "prices",
\* "targets", "update", "done".  exit is the value returned, -1 before.
NotReturned == -1

\* no try made, no dry run kept, no history file, no call of save_history
NoAttempts == [y \in {} |-> <<>>]
NoPreview == [kept |-> FALSE, content |-> EmptyDoc, changes |-> <<>>,
              target_changes |-> <<>>]
NoHistory == [exists |-> FALSE, cols |-> {}, rows |-> <<>>]
NoSave == [date |-> NoDate, total_buy_value |-> [v |-> 0, kind |-> "int"],
           price |-> <<>>]

Init ==
    /\ disk \in { File(d) : d \in Docs } \cup {NoFile}
    /\ disk_before = disk
    /\ pc = "start"
    /\ exit = NotReturned
    /\ dry_run = FALSE
    /\ no_targets = FALSE
    /\ positions = <<>>
    /\ usd_to_eur = RateFailed
    /\ prices = NoPrices
    /\ targets = NoTargets
    /\ today = NoDate
    /\ original_content = EmptyDoc
    /\ content = EmptyDoc
    /\ changes = <<>>
    /\ target_changes = <<>>
    /\ wrote = FALSE
    /\ updated = FALSE
    /\ rerun = FALSE
    /\ idx = 0
    /\ todo = {}
    /\ attempts = NoAttempts
    /\ preview = NoPreview
    /\ history = NoHistory
    /\ saves = 0
    /\ last = NoSave

\* "open_positions = [p for p in positions if p.get("is_open", True)
\*  and p.get("yahoo_ticker")]" and "yahoo_tickers".
YahooTickers(poss) ==
    { poss[i].yahoo_ticker : i \in { k \in 1..Len(poss) : Eligible(poss[k]) } }

\* parse_args and "if not yaml_path.exists(): return 1"
CheckPath ==
    /\ UNCHANGED aux
    /\ pc = "start"
    /\ \E d \in BOOLEAN, n \in BOOLEAN : dry_run' = d /\ no_targets' = n
    /\ IF disk.exists
       THEN pc' = "load" /\ exit' = exit
       ELSE pc' = "done" /\ exit' = 1
    /\ UNCHANGED <<disk, disk_before, positions, usd_to_eur, prices, targets,
                   today, original_content, content, changes, target_changes,
                   wrote, updated, rerun>>

\* load_positions_from_yaml and "if not open_positions: return 1"
LoadPositions ==
    /\ UNCHANGED aux
    /\ pc = "load"
    /\ positions' = load_positions_from_yaml(disk.text)
    /\ IF YahooTickers(positions') = {}
       THEN pc' = "done" /\ exit' = 1
       ELSE pc' = "rate" /\ exit' = exit
    /\ UNCHANGED <<disk, disk_before, dry_run, no_targets, usd_to_eur, prices,
                   targets, today, original_content, content, changes,
                   target_changes, wrote, updated, rerun>>

\* fetch_usd_eur_rate: a rate, or the exception that makes main return 1
FetchRate ==
    /\ UNCHANGED aux
    /\ pc = "rate"
    /\ \E r \in RateObs \cup {RateFailed} :
          IF r = RateFailed
          THEN pc' = "done" /\ exit' = 1 /\ usd_to_eur' = usd_to_eur
          ELSE pc' = "prices" /\ exit' = exit /\ usd_to_eur' = r
    /\ UNCHANGED <<disk, disk_before, dry_run, no_targets, positions, prices,
                   targets, today, original_content, content, changes,
                   target_changes, wrote, updated, rerun>>

\* fetch_stock_prices: a price for those tickers whose fetch gave data,
\* then "if not prices: return 1"
FetchPricesProceed ==
    /\ UNCHANGED aux
    /\ pc = "prices"
    /\ \E S \in SUBSET YahooTickers(positions) :
          \E p \in [S -> UNION { PriceObs(y) : y \in S }] :
             /\ \A y \in S : p[y] \in PriceObs(y)
             /\ prices' = p
    /\ pc' = "targets" /\ exit' = exit
    /\ UNCHANGED <<disk, disk_before, dry_run, no_targets, positions,
                   usd_to_eur, targets, today, original_content, content,
                   changes, target_changes, wrote, updated, rerun>>

FetchPrices ==
    /\ UNCHANGED aux
    /\ pc = "prices"
    /\ \E S \in SUBSET YahooTickers(positions) :
          \E p \in [S -> UNION { PriceObs(y) : y \in S }] :
             /\ \A y \in S : p[y] \in PriceObs(y)
             /\ prices' = p
    /\ IF DOMAIN prices' = {}
       THEN pc' = "done" /\ exit' = 1
       ELSE pc' = "targets" /\ exit' = exit
    /\ UNCHANGED <<disk, disk_before, dry_run, no_targets, positions,
                   usd_to_eur, targets, today, original_content, content,
                   changes, target_changes, wrote, updated, rerun>>

\* every mapping fetch_analyst_targets may return for these positions
TargetMaps(poss) ==
    UNION { { t \in [S -> UNION { TargetObs(y) : y \in S }] :
                 \A y \in S : t[y] \in TargetObs(y) } :
            S \in SUBSET YahooTickers(poss) }

FetchTargetsAlways ==
    /\ UNCHANGED aux
    /\ pc = "targets"
    /\ \E t \in TargetMaps(positions) : targets' = [fetched |-> TRUE, data |-> t]
    /\ pc' = "update"
    /\ UNCHANGED <<disk, disk_before, exit, dry_run, no_targets, positions,
                   usd_to_eur, prices, today, original_content, content,
                   changes, target_changes, wrote, updated, rerun>>

\* "targets = None; if not args.no_targets: targets = fetch_analyst_targets"
FetchTargets ==
    /\ UNCHANGED aux
    /\ pc = "targets"
    /\ IF no_targets
       THEN targets' = NoTargets
       ELSE \E S \in SUBSET YahooTickers(positions) :
               \E t \in [S -> UNION { TargetObs(y) : y \in S }] :
                  /\ \A y \in S : t[y] \in TargetObs(y)
                  /\ targets' = [fetched |-> TRUE, data |-> t]
    /\ pc' = "update"
    /\ UNCHANGED <<disk, disk_before, exit, dry_run, no_targets, positions,
                   usd_to_eur, prices, today, original_content, content,
                   changes, target_changes, wrote, updated, rerun>>

\* one call of update_yaml_file on the file as it is now, on day
Call(day) ==
    LET st == UpdatePass(disk.text, positions, prices, usd_to_eur, targets, day)
    IN  /\ today' = day
        /\ original_content' = disk.text
        /\ content' = st.content
        /\ changes' = st.changes
        /\ target_changes' = st.target_changes
        /\ wrote' = ShouldWrite(dry_run, st.content, disk.text)
        /\ disk' = IF wrote' THEN File(st.content) ELSE disk
        /\ disk_before' = disk
        /\ updated' = TRUE

\* "update_yaml_file(...)" of main, then "return 0"
Update ==
    /\ UNCHANGED aux
    /\ pc = "update"
    /\ \E day \in Dates : Call(day)
    /\ pc' = "done" /\ exit' = 0
    /\ UNCHANGED <<dry_run, no_targets, positions, usd_to_eur, prices,
                   targets, rerun>>

\* update_yaml_file applied once more, in sequence, after a run that was not
\* a dry run: same positions, prices, targets, rate and day
UpdateAgain ==
    /\ UNCHANGED aux
    /\ pc = "done" /\ exit = 0 /\ ~dry_run
    /\ Call(today)
    /\ rerun' = TRUE
    /\ UNCHANGED <<pc, exit, dry_run, no_targets, positions, usd_to_eur,
                   prices, targets>>

Next ==
    \/ CheckPath
    \/ LoadPositions
    \/ FetchRate
    \/ FetchPrices
    \/ FetchTargets
    \/ Update
    \/ UpdateAgain

Spec == Init /\ [][Next]_vars

\* ======================================================== properties
Range(q) == { q[k] : k \in 1..Len(q) }
Entries == Range(changes) \cup Range(target_changes)
HasEntry(i, f) == \E e \in Entries : e.pos = i /\ e.field = f
Blocks == 1..Len(positions)

\* the pass of the last call, replayed up to and including position k
RECURSIVE Prefix(_)
Prefix(k) ==
    IF k = 0
    THEN PatchDate(PatchRate(Pass(original_content), usd_to_eur), today)
    ELSE ProcessPosition(Prefix(k - 1), k, positions[k], prices, targets, usd_to_eur)

\* the observed raw value for field f of position i, 0 if there is none
Observed(i, f) ==
    LET y == positions[i].yahoo_ticker
    IN  IF f = "current_price_eur"
        THEN IF y \in DOMAIN prices THEN prices[y] ELSE 0
        ELSE IF targets.fetched /\ y \in DOMAIN targets.data
             THEN IF f = "target_high_eur" THEN targets.data[y].high
                  ELSE targets.data[y].low
             ELSE 0

\* C1: a second call of update_yaml_file, right after a call that was not a
\* dry run and with the same observations, appends no entry to changes or
\* target_changes and does not write the document.
C1_Idempotence ==
    rerun => /\ changes = <<>>
             /\ target_changes = <<>>
             /\ ~wrote
             /\ disk = disk_before

\* C2: a call changes the numeric literal of field f in block j only as the
\* patch of field f of the record that owns block j; no other record's block
\* and no other field is altered.
C2_Locality ==
    updated =>
        \A j \in Blocks :
            /\ \A f \in Fields :
                  content.recs[j][f] # original_content.recs[j][f] => HasEntry(j, f)
            /\ \A a \in {"ticker", "plain", "yahoo_ticker", "currency", "is_open"} :
                  content.recs[j][a] = original_content.recs[j][a]

\* C3: the block of a record that is closed or has no yahoo_ticker is the
\* same text after the call as before it.
C3_IneligibleUntouched ==
    updated =>
        \A j \in Blocks :
            ~Eligible(positions[j]) => content.recs[j] = original_content.recs[j]

\* C4: every entry of changes and target_changes was appended while
\* processing an open position with a yahoo_ticker for which the observation
\* set holds a value; none is produced for a closed record or a record
\* without yahoo_ticker, whatever keys the observation set has.
C4_SkipSemantics ==
    \A e \in Entries :
        e.pos # 0 =>
            /\ e.pos \in Blocks
            /\ positions[e.pos].is_open
            /\ positions[e.pos].yahoo_ticker # ""
            /\ e.id = positions[e.pos].ticker
            /\ Observed(e.pos, e.field) # 0

\* a call that reported price and target changes although the document
\* holds a record without yahoo_ticker whose ticker is a key of both
\* observation sets
C4_Witness ==
    /\ updated /\ changes # <<>> /\ target_changes # <<>>
    /\ \E j \in Blocks :
          /\ positions[j].yahoo_ticker = ""
          /\ positions[j].ticker \in DOMAIN prices
          /\ positions[j].ticker \in DOMAIN targets.data

\* the same for a closed record whose yahoo_ticker is a key of both sets
C4_WitnessClosed ==
    /\ updated /\ changes # <<>> /\ target_changes # <<>>
    /\ \E j \in Blocks :
          /\ ~positions[j].is_open
          /\ positions[j].yahoo_ticker \in DOMAIN prices
          /\ positions[j].yahoo_ticker \in DOMAIN targets.data

\* C5: a call with dry_run never writes the document, however many fields
\* differ in the in-memory text.
C5_DryRunPurity ==
    (updated /\ dry_run) => (disk = disk_before /\ ~wrote)

\* a dry run whose in-memory text differs in rate, date, a price and a target
C5_Witness ==
    /\ updated /\ dry_run
    /\ content.rate # original_content.rate
    /\ content.date # original_content.date
    /\ Len(changes) >= 2
    /\ target_changes # <<>>
    /\ disk = disk_before

\* C6: a call writes the document iff dry_run is false and the final
\* in-memory text differs from the text read at the start; what it writes
\* is the final in-memory text, and without a write the file is as before.
C6_WriterContract ==
    updated =>
        /\ original_content = disk_before.text
        /\ wrote <=> (~dry_run /\ content # original_content)
        /\ wrote => disk = File(content)
        /\ ~wrote => disk = disk_before
        /\ content = original_content => disk = disk_before

\* a call that wrote, and whose text differs from the one read
C6_Witness ==
    updated /\ wrote /\ disk = File(content) /\ disk # disk_before
      /\ changes # <<>>

\* a call, not a dry run, that left the text as read and did not write
C6_WitnessEqual ==
    updated /\ ~dry_run /\ content = original_content /\ ~wrote

C7_WitnessSameDay ==
    /\ updated /\ ~dry_run /\ changes = <<>> /\ target_changes = <<>>
    /\ original_content.date = today
    /\ prices # NoPrices
    /\ ~wrote

\* the value the claim expects for field f of position i
Expected(i, f) ==
    IF positions[i].currency = "USD"
    THEN MulRate(Observed(i, f), usd_to_eur)
    ELSE Exact(Observed(i, f))

\* position i is open with a yahoo_ticker and has an observation for f
Patchable(i, f) ==
    /\ positions[i].is_open /\ positions[i].yahoo_ticker # ""
    /\ Observed(i, f) # 0

C8_WitnessConverse ==
    /\ updated
    /\ original_content.rate = Lit(85, 2) /\ usd_to_eur = 85110
    /\ content.rate = Lit(8511, 4)
    /\ \E i \in Blocks :
          /\ Patchable(i, "current_price_eur") /\ positions[i].currency = "EUR"
          /\ Search(original_content.recs, positions[i].ticker, "current_price_eur") = i
          /\ Observed(i, "current_price_eur") = 50010000
          /\ content.recs[i].current_price_eur = Lit(5000, 2)
          /\ ~HasEntry(i, "current_price_eur")

\* observed USD value times rate, rounded to five decimals, as literal digits
UsdTable(raw, rate) ==
    CASE raw = 100000000 /\ rate = 85000 -> 8500000
      [] raw = 100000000 /\ rate = 85100 -> 8510000
      [] raw = 100000000 /\ rate = 85110 -> 8511000
      [] raw = 70000000 /\ rate = 85000 -> 5950000
      [] raw = 70000000 /\ rate = 85100 -> 5957000
      [] raw = 70000000 /\ rate = 85110 -> 5957700
      [] OTHER -> 0

\* C9: the value compared and written for price, high and low of an open
\* position with a yahoo_ticker is observed * usd_to_eur for a USD position
\* and the observed value itself otherwise, written with five decimals
\* (100 at rate 0.85 gives 85.00000 for USD, 100.00000 for EUR; 45.00 at
\* rate 0.90 on a USD record at 40.00 gives 40.50000).
C9_CurrencyConversion ==
    updated =>
       /\ FormatMoney(Convert(45000000, 90000, "USD")) = Lit(4050000, 5)
       /\ Exceeds(40000000, Convert(45000000, 90000, "USD"), PRICE_TOLERANCE)
       /\ FormatMoney(Convert(100000000, 85000, "EUR")) = Lit(10000000, 5)
       /\ \A i \in Blocks : \A f \in Fields :
             (Patchable(i, f) /\ HasEntry(i, f)) =>
                LET before == Prefix(i - 1).content.recs
                    after == Prefix(i).content.recs
                    j == Search(before, positions[i].ticker, f)
                    raw == Observed(i, f)
                IN  /\ j # 0
                    /\ after[j][f].d = 5
                    /\ after[j][f].n =
                          IF positions[i].currency = "USD"
                          THEN UsdTable(raw, usd_to_eur)
                          ELSE RoundDiv(Exact(raw), 10)
                    /\ \E e \in Entries :
                          /\ e.pos = i /\ e.field = f
                          /\ e.new = Format2(Expected(i, f))

\* rate 0.85, observed price 100: the USD record reads 85.00000
C9_Witness ==
    /\ updated /\ usd_to_eur = 85000
    /\ \E i \in Blocks :
          /\ positions[i].currency = "USD"
          /\ Observed(i, "current_price_eur") = 100000000
          /\ original_content.recs[i].current_price_eur = Lit(4000, 2)
          /\ content.recs[i].current_price_eur = Lit(8500000, 5)
          /\ HasEntry(i, "current_price_eur")

\* an EUR record next to it is patched to the observed value itself
C9_WitnessEur ==
    /\ updated /\ usd_to_eur = 85110
    /\ \E i \in Blocks :
          /\ positions[i].currency = "EUR"
          /\ Observed(i, "target_low_eur") = 30000000
          /\ content.recs[i].target_low_eur = Lit(3000000, 5)
    /\ \E i \in Blocks :
          /\ positions[i].currency = "USD"
          /\ content.recs[i].target_high_eur = Lit(5957700, 5)

\* C10: main returns non-zero when the document is missing, when the rate
\* fetch fails and when no price was obtained, each time without calling
\* update_yaml_file and with the document as it was; it returns 0 exactly
\* when the document existed and update_yaml_file was run.
C10_ExitStatus ==
    /\ pc = "done" <=> exit # NotReturned
    /\ pc = "done" =>
          /\ exit \in {0, 1}
          /\ ~disk.exists => exit = 1
          /\ usd_to_eur = RateFailed => exit = 1
          /\ prices = NoPrices => exit = 1
          /\ exit = 0 <=> (disk.exists /\ updated)
          /\ exit = 1 => (~updated /\ ~wrote /\ disk = disk_before
                            /\ content = EmptyDoc /\ changes = <<>>)
    /\ updated => (pc = "done" /\ exit = 0)

\* main returned 1 because no price at all was obtained, the rate being there
C10_Witness ==
    /\ pc = "done" /\ exit = 1
    /\ disk.exists /\ usd_to_eur # RateFailed /\ prices = NoPrices
    /\ ~updated

C10_WitnessRate ==
    pc = "done" /\ exit = 1 /\ disk.exists /\ positions # <<>>
      /\ usd_to_eur = RateFailed

C10_WitnessMissing == pc = "done" /\ exit = 1 /\ ~disk.exists

C10_WitnessZero == pc = "done" /\ exit = 0 /\ updated /\ ~wrote /\ ~dry_run

\* the fields of kind f of all blocks, in text order
Column(doc, f) == [j \in 1..Len(doc.recs) |-> doc.recs[j][f]]

\* C11: with --no-targets the targets are not fetched (None is passed), no
\* target_high_eur or target_low_eur of any record changes and
\* target_changes is empty, while the rate, the date, the prices and the
\* list changes come out as they do for any targets fetched without the flag.
C11_NoTargetsMode ==
    (updated /\ no_targets) =>
        /\ ~targets.fetched
        /\ target_changes = <<>>
        /\ Column(content, "target_high_eur") = Column(original_content, "target_high_eur")
        /\ Column(content, "target_low_eur") = Column(original_content, "target_low_eur")
        /\ \A t \in TargetMaps(positions) :
              LET w == UpdatePass(original_content, positions, prices, usd_to_eur,
                                  [fetched |-> TRUE, data |-> t], today)
              IN  /\ w.changes = changes
                  /\ w.content.rate = content.rate
                  /\ w.content.date = content.date
                  /\ Column(w.content, "current_price_eur")
                        = Column(content, "current_price_eur")

\* a run with --no-targets that patched rate, date and a price, on positions
\* for which targets fetched without the flag would have changed a target
C11_Witness ==
    /\ updated /\ no_targets
    /\ content.rate # original_content.rate
    /\ content.date # original_content.date
    /\ Len(changes) >= 2
    /\ \E t \in TargetMaps(positions) :
          UpdatePass(original_content, positions, prices, usd_to_eur,
                     [fetched |-> TRUE, data |-> t], today).target_changes # <<>>

\* =================================================== step by step
\* The same program with the loops of fetch_stock_prices,
\* fetch_analyst_targets and update_yaml_file taken one iteration at a time.
\* pc takes in addition "prices_loop", "targets_loop", "u_rate", "u_date",
\* "u_loop".
mainvars == <<disk, disk_before, exit, dry_run, no_targets, positions,
              usd_to_eur, today, original_content, content, changes,
              target_changes, wrote, updated, rerun, preview, histvars>>

\* a fetch that gave no data: "data.empty" or an exception caught in the loop
NoData == 0

\* "unique_tickers = list(set(yahoo_tickers))", "prices = {}"
PricesBegin ==
    /\ pc = "prices"
    /\ todo' = YahooTickers(positions)
    /\ attempts' = [y \in YahooTickers(positions) |-> <<>>]
    /\ prices' = NoPrices
    /\ pc' = "prices_loop"
    /\ UNCHANGED <<mainvars, targets, idx>>

\* an iteration in which an exception leaves the loop
PriceTryAbort(y, r) ==
    /\ prices' = IF r # NoData
                 THEN [z \in DOMAIN prices \cup {y} |-> IF z = y THEN r ELSE prices[z]]
                 ELSE prices
    /\ todo' = IF r # NoData THEN todo \ {y} ELSE {}

\* one iteration of "for yahoo_ticker in unique_tickers" with outcome r
PriceTry(y, r) ==
    /\ prices' = IF r # NoData
                 THEN [z \in DOMAIN prices \cup {y} |-> IF z = y THEN r ELSE prices[z]]
                 ELSE prices
    /\ todo' = todo \ {y}

PriceAttempt ==
    /\ pc = "prices_loop"
    /\ \E y \in todo : \E r \in PriceObs(y) \cup {NoData} :
          /\ PriceTry(y, r)
          /\ attempts' = [attempts EXCEPT ![y] = Append(@, r)]
    /\ UNCHANGED <<mainvars, pc, targets, idx>>

\* "return prices" and "if not prices: return 1"
PricesReturn ==
    /\ pc = "prices_loop" /\ todo = {}
    /\ IF DOMAIN prices = {}
       THEN pc' = "done" /\ exit' = 1
       ELSE pc' = "targets" /\ exit' = exit
    /\ attempts' = NoAttempts
    /\ UNCHANGED <<disk, disk_before, dry_run, no_targets, positions,
                   usd_to_eur, today, original_content, content, changes,
                   target_changes, wrote, updated, rerun, preview, histvars,
                   prices, targets, todo, idx>>

\* "targets = None" and, without --no-targets, the start of
\* fetch_analyst_targets
TargetsBegin ==
    /\ pc = "targets"
    /\ IF no_targets
       THEN /\ targets' = NoTargets
            /\ pc' = "update"
            /\ UNCHANGED <<todo, attempts>>
       ELSE /\ targets' = [fetched |-> TRUE, data |-> NoTargets.data]
            /\ todo' = YahooTickers(positions)
            /\ attempts' = [y \in YahooTickers(positions) |-> <<>>]
            /\ pc' = "targets_loop"
    /\ UNCHANGED <<mainvars, prices, idx>>

\* one iteration of the loop of fetch_analyst_targets: target_data r, or no
\* data ("No analyst data available" or an exception caught in the loop)
TargetAttempt ==
    /\ pc = "targets_loop"
    /\ \E y \in todo :
          \/ \E r \in TargetObs(y) :
                /\ targets' = [targets EXCEPT !.data =
                      [z \in DOMAIN targets.data \cup {y} |->
                          IF z = y THEN r ELSE targets.data[z]]]
                /\ attempts' = [attempts EXCEPT ![y] = Append(@, r.high + r.low)]
                /\ todo' = todo \ {y}
          \/ /\ targets' = targets
             /\ attempts' = [attempts EXCEPT ![y] = Append(@, NoData)]
             /\ todo' = todo \ {y}
    /\ UNCHANGED <<mainvars, pc, prices, idx>>

\* "return targets"
TargetsReturn ==
    /\ pc = "targets_loop" /\ todo = {}
    /\ pc' = "update"
    /\ attempts' = NoAttempts
    /\ UNCHANGED <<mainvars, prices, targets, todo, idx>>

\* the locals of update_yaml_file as one pass state
Cur == [content |-> content, changes |-> changes, target_changes |-> target_changes]

SetCur(st) ==
    /\ content' = st.content
    /\ changes' = st.changes
    /\ target_changes' = st.target_changes

\* "content = yaml_path.read_text(); original_content = content;
\*  changes = []; target_changes = []"
UpdateBegin ==
    /\ pc = "update"
    /\ original_content' = disk.text
    /\ SetCur(Pass(disk.text))
    /\ disk_before' = disk
    /\ pc' = "u_rate"
    /\ UNCHANGED <<disk, exit, dry_run, no_targets, positions, usd_to_eur,
                   prices, targets, today, wrote, updated, rerun, aux>>

\* "Update USD/EUR rate"
StepRate ==
    /\ pc = "u_rate"
    /\ SetCur(PatchRate(Cur, usd_to_eur))
    /\ pc' = "u_date"
    /\ UNCHANGED <<disk, disk_before, exit, dry_run, no_targets, positions,
                   usd_to_eur, prices, targets, today, original_content,
                   wrote, updated, rerun, aux>>

\* "today = datetime.now()..." and "Update last_update date"
StepDate ==
    /\ pc = "u_date"
    /\ \E day \in Dates :
          /\ today' = day
          /\ SetCur(PatchDate(Cur, day))
    /\ pc' = "u_loop"
    /\ idx' = 1
    /\ UNCHANGED <<disk, disk_before, exit, dry_run, no_targets, positions,
                   usd_to_eur, prices, targets, original_content, wrote,
                   updated, rerun, todo, attempts, preview, histvars>>

\* a loop that saves the file after every position
DiskInLoopSaving(st) ==
    IF ShouldWrite(dry_run, st.content, original_content)
    THEN File(st.content) ELSE disk

\* what one iteration of the loop does to the file: nothing
DiskInLoop(st) == disk

\* one iteration of "for pos in positions"
StepPosition ==
    /\ pc = "u_loop" /\ idx <= Len(positions)
    /\ LET st == ProcessPosition(Cur, idx, positions[idx], prices, targets, usd_to_eur)
       IN  SetCur(st) /\ disk' = DiskInLoop(st)
    /\ idx' = idx + 1
    /\ UNCHANGED <<disk_before, exit, dry_run, no_targets, positions,
                   usd_to_eur, prices, targets, today, original_content,
                   wrote, updated, rerun, pc, todo, attempts, preview, histvars>>

\* the end of the loop: the report, "Write if not dry run", and the
\* "return 0" of main
StepWrite ==
    /\ pc = "u_loop" /\ idx > Len(positions)
    /\ wrote' = ShouldWrite(dry_run, content, original_content)
    /\ disk' = IF wrote' THEN File(content) ELSE disk
    /\ updated' = TRUE
    /\ idx' = 0
    /\ pc' = "done" /\ exit' = 0
    /\ UNCHANGED <<disk_before, dry_run, no_targets, positions, usd_to_eur,
                   prices, targets, today, original_content, content,
                   changes, target_changes, rerun, todo, attempts, preview,
                   histvars>>

StepNext ==
    \/ CheckPath
    \/ LoadPositions
    \/ FetchRate
    \/ PricesBegin
    \/ PriceAttempt
    \/ PricesReturn
    \/ TargetsBegin
    \/ TargetAttempt
    \/ TargetsReturn
    \/ UpdateBegin
    \/ StepRate
    \/ StepDate
    \/ StepPosition
    \/ StepWrite

StepSpec == Init /\ [][StepNext]_vars

\* C12: in every run of update_yaml_file on a document with a last_update
\* field the in-memory text has last_update equal to the current date once
\* the date step is done, whatever the tolerances and whether or not
\* anything else changed; the date is overwritten after the rate patch and
\* before any position is processed, and no change entry is appended for it.
C12_DateState ==
    /\ pc = "u_rate" => content = original_content
    /\ pc = "u_date" =>
          /\ content.date = original_content.date
          /\ content.recs = original_content.recs
          /\ content.rate = PatchRate(Pass(original_content), usd_to_eur).content.rate
    /\ (pc = "u_loop" \/ (pc = "done" /\ updated)) =>
          (original_content.date # NoDate => content.date = today)
    /\ \A e \in Range(changes) \cup Range(target_changes) :
          e.field \in Fields \cup {"usd_to_eur"}

C12_DateStep ==
    (pc # "update" /\ content'.date # content.date) =>
        /\ pc = "u_date" /\ pc' = "u_loop" /\ idx' = 1
        /\ content' = [content EXCEPT !.date = today']
        /\ changes' = changes
        /\ target_changes' = target_changes

C12_TimestampOverwrite == [](C12_DateState) /\ [][C12_DateStep]_vars

\* a finished run in which nothing but the date changed, to the current date
C12_Witness ==
    /\ pc = "done" /\ updated
    /\ changes = <<>> /\ target_changes = <<>>
    /\ original_content.date # today
    /\ content = [original_content EXCEPT !.date = today]

\* C13: during a run the file equals the text it had at the start at every
\* step before the final write; it is written at most once per run, and only
\* after the rate, the date and every position have been processed, so a run
\* that stops at any earlier step leaves the file untouched.
C13_BeforeWrite ==
    pc # "done" => (disk = disk_before /\ ~wrote /\ ~updated)

C13_WriteStep ==
    disk' # disk =>
        /\ pc = "u_loop" /\ idx > Len(positions) /\ pc' = "done"
        /\ ~dry_run /\ ~wrote /\ wrote'
        /\ content = UpdatePass(original_content, positions, prices,
                                usd_to_eur, targets, today).content
        /\ disk' = File(content)

C13_CrashSafety == [](C13_BeforeWrite) /\ [][C13_WriteStep]_vars

\* the loop is over, price and target changes are pending in memory, the
\* run is not a dry run and the file is still as it was
C13_Witness ==
    /\ pc = "u_loop" /\ idx > Len(positions) /\ Len(positions) >= 2
    /\ ~dry_run
    /\ changes # <<>> /\ target_changes # <<>>
    /\ content # original_content
    /\ disk = File(original_content)

\* the loop iteration being taken appends an entry for field f
Added(f) ==
    \E e \in Range(changes') \cup Range(target_changes') :
        e.pos = idx /\ e.field = f

\* C14: in the iteration of an open position with a yahoo_ticker each of
\* current_price_eur, target_high_eur and target_low_eur is patched only if
\* its own observation exists; the three decisions are independent, a field
\* without observation keeps its text and gets no entry, and the loop goes on
\* to the remaining fields and positions.
C14_FieldStep ==
    (pc = "u_loop" /\ idx <= Len(positions)) =>
        /\ pc' = "u_loop" /\ idx' = idx + 1
        /\ (positions[idx].is_open /\ positions[idx].yahoo_ticker # "") =>
              \A f \in Fields :
                 LET j == Search(content.recs, positions[idx].ticker, f)
                     big == /\ j # 0
                            /\ ExceedsStrict(LitValue(content.recs[j][f], MONEY_UNIT_DECIMALS),
                                             Expected(idx, f), PRICE_TOLERANCE)
                 IN  /\ Observed(idx, f) = 0 =>
                           (Column(content', f) = Column(content, f) /\ ~Added(f))
                     /\ (Observed(idx, f) # 0 /\ big) =>
                           (Added(f) /\ content'.recs[j][f].d = PRICE_DECIMALS)
                     /\ (Observed(idx, f) # 0 /\ ~big) =>
                           (Column(content', f) = Column(content, f) /\ ~Added(f))

C14_MissingObservation == [][C14_FieldStep]_vars

\* a position with neither price nor high observed had its low patched, and
\* a later position its price
C14_Witness ==
    /\ pc = "done" /\ updated
    /\ \E i \in Blocks : \E j \in Blocks :
          /\ i < j
          /\ Observed(i, "current_price_eur") = 0
          /\ Observed(i, "target_high_eur") = 0
          /\ HasEntry(i, "target_low_eur")
          /\ content.recs[i].target_low_eur # original_content.recs[i].target_low_eur
          /\ content.recs[i].target_high_eur = original_content.recs[i].target_high_eur
          /\ HasEntry(j, "current_price_eur")

\* the text holds no "- ticker: <t>" marker
NoMarker(doc, t) ==
    ~\E k \in 1..Len(doc.recs) : doc.recs[k].plain /\ doc.recs[k].ticker = t

\* C15: the iteration of an open position with a yahoo_ticker whose
\* "- ticker: <id>" marker is nowhere in the text changes neither the text
\* nor the change lists, returns nothing, and hands over to the next
\* position; the run then ends normally.
C15_SkipStep ==
    (/\ pc = "u_loop" /\ idx <= Len(positions)
     /\ positions[idx].is_open /\ positions[idx].yahoo_ticker # ""
     /\ NoMarker(content, positions[idx].ticker)) =>
        /\ content' = content
        /\ changes' = changes
        /\ target_changes' = target_changes
        /\ disk' = disk
        /\ exit' = exit /\ exit = NotReturned
        /\ pc' = "u_loop" /\ idx' = idx + 1

C15_Completes ==
    /\ (pc = "u_loop" => idx \in 1..(Len(positions) + 1))
    /\ ((pc = "done" /\ updated) =>
           /\ exit = 0
           /\ \A i \in 1..Len(positions) :
                 (/\ positions[i].is_open /\ positions[i].yahoo_ticker # ""
                  /\ NoMarker(original_content, positions[i].ticker)) =>
                     \A f \in Fields : ~HasEntry(i, f))

C15_RecordNotFound == [](C15_Completes) /\ [][C15_SkipStep]_vars

\* a position with observations but no marker was passed over and the
\* position after it was patched
C15_Witness ==
    /\ pc = "done" /\ updated /\ exit = 0
    /\ \E i \in 1..Len(positions) : \E j \in 1..Len(positions) :
          /\ i < j
          /\ positions[i].is_open /\ positions[i].yahoo_ticker # ""
          /\ NoMarker(original_content, positions[i].ticker)
          /\ Observed(i, "current_price_eur") # 0
          /\ content.recs[i] = original_content.recs[i]
          /\ HasEntry(j, "current_price_eur")

\* the identifiers whose single attempt of the running loop returned data
Succeeded == { y \in DOMAIN attempts : Len(attempts[y]) = 1 /\ attempts[y][1] # NoData }

\* C16: in both fetch loops every distinct yahoo_ticker is attempted exactly
\* once, an attempt without data only leaves that identifier out of the
\* mapping, the mapping holds exactly the identifiers whose attempt returned
\* data, and with at least one price the run goes on to update_yaml_file.
C16_Loops ==
    /\ (pc \in {"prices_loop", "targets_loop"}) =>
          /\ DOMAIN attempts = YahooTickers(positions)
          /\ \A y \in DOMAIN attempts :
                /\ Len(attempts[y]) <= 1
                /\ (y \in todo <=> Len(attempts[y]) = 0)
    /\ (pc = "prices_loop") =>
          /\ DOMAIN prices = Succeeded
          /\ \A y \in Succeeded : prices[y] = attempts[y][1]
    /\ (pc = "targets_loop") =>
          /\ targets.fetched
          /\ DOMAIN targets.data = Succeeded
          /\ \A y \in Succeeded :
                targets.data[y].high + targets.data[y].low = attempts[y][1]
    /\ (pc \in {"targets", "targets_loop", "update", "u_rate", "u_date", "u_loop"}) =>
          /\ DOMAIN prices # {}
          /\ DOMAIN prices \subseteq YahooTickers(positions)
          /\ exit = NotReturned

C16_LoopStep ==
    /\ (pc \in {"prices_loop", "targets_loop"} /\ todo # {}) =>
          /\ pc' = pc /\ exit' = exit
          /\ \E y \in todo :
                /\ todo' = todo \ {y}
                /\ Len(attempts'[y]) = 1
                /\ \A z \in DOMAIN attempts \ {y} : attempts'[z] = attempts[z]
                /\ attempts'[y][1] = NoData => (prices' = prices /\ targets' = targets)
    /\ (pc = "prices_loop" /\ todo = {} /\ DOMAIN prices # {}) =>
          (pc' = "targets" /\ prices' = prices)
    /\ (pc = "targets") => pc' \in {"targets_loop", "update"}
    /\ (pc = "targets_loop" /\ todo = {}) => (pc' = "update" /\ targets' = targets)
    /\ (pc = "update") => (pc' = "u_rate" /\ prices' = prices /\ targets' = targets)

C16_FetchFailures == [](C16_Loops) /\ [][C16_LoopStep]_vars

\* update_yaml_file is about to be called although one price attempt and one
\* target attempt returned nothing
C16_Witness ==
    /\ pc = "update"
    /\ Cardinality(YahooTickers(positions)) = 2
    /\ Cardinality(DOMAIN prices) = 1
    /\ targets.fetched /\ Cardinality(DOMAIN targets.data) = 1
    /\ DOMAIN targets.data # DOMAIN prices

IsPrefix(a, b) == Len(a) <= Len(b) /\ SubSeq(b, 1, Len(a)) = a

\* no entry is removed, rewritten or reordered
C17_Grow ==
    (pc \notin {"update", "done"}) =>
        (IsPrefix(changes, changes') /\ IsPrefix(target_changes, target_changes'))

\* rate first, then positions order; prices and rate in changes, targets in
\* target_changes
C17_Order ==
    /\ \A k \in 1..Len(changes) :
          /\ changes[k].field \in {"usd_to_eur", "current_price_eur"}
          /\ (changes[k].field = "usd_to_eur") <=> (changes[k].pos = 0)
          /\ \A l \in 1..Len(changes) : k < l => changes[k].pos < changes[l].pos
    /\ \A k \in 1..Len(target_changes) :
          /\ target_changes[k].field \in {"target_high_eur", "target_low_eur"}
          /\ target_changes[k].pos \in 1..Len(positions)
          /\ \A l \in 1..Len(target_changes) :
                k < l => \/ target_changes[k].pos < target_changes[l].pos
                         \/ /\ target_changes[k].pos = target_changes[l].pos
                            /\ target_changes[k].field = "target_high_eur"
                            /\ target_changes[l].field = "target_low_eur"

\* the entries naming record id t and field f
EntriesOf(t, f) ==
    { <<"changes", k>> : k \in { k \in 1..Len(changes) :
          changes[k].id = t /\ changes[k].field = f } }
    \cup
    { <<"target_changes", k>> : k \in { k \in 1..Len(target_changes) :
          target_changes[k].id = t /\ target_changes[k].field = f } }

\* every field whose text changed has exactly one entry, and every entry is
\* for a field of its record whose text changed
C17_Exact ==
    (pc = "done" /\ updated) =>
        /\ (content.rate # original_content.rate) <=>
              (Cardinality(EntriesOf("USD/EUR", "usd_to_eur")) = 1)
        /\ \A j \in 1..Len(content.recs) : \A f \in Fields :
              (content.recs[j][f] # original_content.recs[j][f]) =>
                  Cardinality(EntriesOf(content.recs[j].ticker, f)) = 1
        /\ \A e \in Entries :
              e.pos # 0 =>
                  \E j \in 1..Len(content.recs) :
                      /\ content.recs[j].ticker = e.id
                      /\ content.recs[j][e.field] # original_content.recs[j][e.field]

\* C17: within one run the change lists only grow, entries are in processing
\* order and in the list of their category, and an entry for (record, field)
\* is appended exactly when that record's field was substituted in the text,
\* so every changed field other than last_update has exactly one entry.
C17_ChangeLog == [](C17_Order /\ C17_Exact) /\ [][C17_Grow]_vars

C17_GrowOrder == [](C17_Order) /\ [][C17_Grow]_vars

\* ------------------------------------------------- preview, then the run
\* a dry run that returns after building the change lists, before the text
\* is touched
update_yaml_file_report_only(text, poss, prs, rate, tgs, day, dry) ==
    LET st == UpdatePass(text, poss, prs, rate, tgs, day)
    IN  [content |-> IF dry THEN text ELSE st.content,
         changes |-> st.changes,
         target_changes |-> st.target_changes,
         write |-> ShouldWrite(dry, st.content, text)]

\* update_yaml_file as a function of its arguments: the mutated text, the
\* two change lists and whether write_text is reached
update_yaml_file(text, poss, prs, rate, tgs, day, dry) ==
    LET st == UpdatePass(text, poss, prs, rate, tgs, day)
    IN  [content |-> st.content,
         changes |-> st.changes,
         target_changes |-> st.target_changes,
         write |-> ShouldWrite(dry, st.content, text)]

\* the call of main, with the --dry-run flag as given
PreviewCall ==
    /\ pc = "update"
    /\ \E day \in Dates :
          LET r == update_yaml_file(disk.text, positions, prices, usd_to_eur,
                                    targets, day, dry_run)
          IN  /\ today' = day
              /\ original_content' = disk.text
              /\ content' = r.content
              /\ changes' = r.changes
              /\ target_changes' = r.target_changes
              /\ wrote' = r.write
              /\ disk' = IF r.write THEN File(r.content) ELSE disk
    /\ disk_before' = disk
    /\ updated' = TRUE
    /\ pc' = "done" /\ exit' = 0
    /\ UNCHANGED <<dry_run, no_targets, positions, usd_to_eur, prices,
                   targets, rerun, aux>>

\* after a dry run, the same call without --dry-run: same file, positions,
\* prices, targets, rate and day; the dry run's results are kept aside
ApplyCall ==
    /\ pc = "done" /\ exit = 0 /\ updated /\ dry_run /\ ~preview.kept
    /\ preview' = [kept |-> TRUE, content |-> content, changes |-> changes,
                   target_changes |-> target_changes]
    /\ dry_run' = FALSE
    /\ LET r == update_yaml_file(disk.text, positions, prices, usd_to_eur,
                                 targets, today, FALSE)
       IN  /\ original_content' = disk.text
           /\ content' = r.content
           /\ changes' = r.changes
           /\ target_changes' = r.target_changes
           /\ wrote' = r.write
           /\ disk' = IF r.write THEN File(r.content) ELSE disk
    /\ disk_before' = disk
    /\ UNCHANGED <<pc, exit, no_targets, positions, usd_to_eur, prices,
                   targets, today, updated, rerun, stepvars, histvars>>

PreviewNext ==
    \/ CheckPath
    \/ LoadPositions
    \/ FetchRate
    \/ FetchPrices
    \/ FetchTargets
    \/ PreviewCall
    \/ ApplyCall

PreviewSpec == Init /\ [][PreviewNext]_vars

\* C18: on the same document, positions, observations, rate and date a
\* dry-run call and a normal call of update_yaml_file yield the same mutated
\* text and the same two change lists; only the write depends on dry_run.
C18_PreviewFidelity ==
    /\ (pc = "update") =>
          \A day \in Dates :
             LET a == update_yaml_file(disk.text, positions, prices, usd_to_eur,
                                       targets, day, TRUE)
                 b == update_yaml_file(disk.text, positions, prices, usd_to_eur,
                                       targets, day, FALSE)
             IN  /\ a.content = b.content
                 /\ a.changes = b.changes
                 /\ a.target_changes = b.target_changes
                 /\ ~a.write
                 /\ b.write <=> (b.content # disk.text)
    /\ preview.kept =>
          /\ content = preview.content
          /\ changes = preview.changes
          /\ target_changes = preview.target_changes
          /\ original_content = disk_before.text
          /\ wrote <=> (content # original_content)
          /\ disk = IF wrote THEN File(content) ELSE disk_before
    /\ (updated /\ dry_run) => (~wrote /\ disk = disk_before)

\* a dry run that reported price and target changes was followed by the
\* normal run, which wrote the previewed text
C18_Witness ==
    /\ preview.kept /\ ~dry_run /\ wrote
    /\ preview.changes # <<>> /\ preview.target_changes # <<>>
    /\ preview.content # original_content
    /\ disk = File(preview.content)

\* ------------------------------------------------------------ save_history
\* A number is its value in cents and its dtype; NaN is the missing cell of
\* a frame.  A summary is the row built from the open positions of one run:
\* the date, total_buy_value and one "<ticker>_price" column per open
\* position.
NaN == [v |-> 0, kind |-> "nan"]
HistDates == {"2026-01-01", "2026-01-02", "2026-01-03"}
HistTickers == {"A", "B"}

\* "df_open[...].sum() if not df_open.empty else 0" and the per-ticker
\* columns: without open positions the total is the int 0 and there is no
\* ticker column
Summaries ==
    { [date |-> d, total_buy_value |-> [v |-> 0, kind |-> "int"], price |-> <<>>] :
        d \in HistDates }
    \cup
    { [date |-> x[1],
       total_buy_value |-> [v |-> x[2], kind |-> "float"],
       price |-> [c \in x[3] |-> [v |-> 5001, kind |-> "float"]]] :
        x \in HistDates \X {12550, 20000} \X (SUBSET HistTickers \ {{}}) }

\* "summary_df = pd.DataFrame([summary])"
summary_df(s) ==
    [cols |-> DOMAIN s.price,
     rows |-> << [date |-> s.date, total_buy_value |-> s.total_buy_value,
                  price |-> s.price] >>]

\* a row laid out on the columns cols, NaN where it has no value
Reindex(r, cols) ==
    [r EXCEPT !.price = [c \in cols |-> IF c \in DOMAIN r.price
                                       THEN r.price[c] ELSE NaN]]

\* the dtype of a column holding an int and a float is float
Upcast(rows) ==
    IF \E k \in 1..Len(rows) : rows[k].total_buy_value.kind = "float"
    THEN [k \in 1..Len(rows) |-> [rows[k] EXCEPT !.total_buy_value.kind = "float"]]
    ELSE rows

\* "pd.concat([existing, summary_df], ignore_index=True)"
concat(a, b) ==
    LET cols == a.cols \cup b.cols
        n == Len(a.rows)
        rows == [k \in 1..(n + Len(b.rows)) |->
                    Reindex(IF k <= n THEN a.rows[k] ELSE b.rows[k - n], cols)]
    IN  [cols |-> cols, rows |-> Upcast(rows)]

\* "existing[existing["date"] != summary["date"]]"
DropDate(df, d) ==
    LET Other(r) == r.date # d
    IN  [df EXCEPT !.rows = SelectSeq(@, Other)]

\* a cell as written by to_csv: its digits, whether it has a decimal point,
\* and empty for NaN
Cell(x) ==
    IF x.kind = "nan" THEN [digits |-> 0, point |-> FALSE, empty |-> TRUE]
    ELSE [digits |-> x.v, point |-> x.kind = "float", empty |-> FALSE]

\* "combined.to_csv(history_path, index=False)"
to_csv(df) ==
    [exists |-> TRUE,
     cols |-> df.cols,
     rows |-> [k \in 1..Len(df.rows) |->
                 [date |-> df.rows[k].date,
                  total_buy_value |-> Cell(df.rows[k].total_buy_value),
                  price |-> [c \in df.cols |-> Cell(df.rows[k].price[c])]]]]

\* a cell as parsed by read_csv in a column of dtype float or int
Parse(t, float) ==
    IF t.empty THEN NaN
    ELSE [v |-> t.digits, kind |-> IF float THEN "float" ELSE "int"]

\* "pd.read_csv(history_path)": a column is int only if every cell is an
\* integer literal
read_csv(file) ==
    LET K == 1..Len(file.rows)
        ftotal == \E k \in K : file.rows[k].total_buy_value.point
                                 \/ file.rows[k].total_buy_value.empty
        fprice(c) == \E k \in K : file.rows[k].price[c].point
                                    \/ file.rows[k].price[c].empty
    IN  [cols |-> file.cols,
         rows |-> [k \in K |->
                     [date |-> file.rows[k].date,
                      total_buy_value |-> Parse(file.rows[k].total_buy_value, ftotal),
                      price |-> [c \in file.cols |->
                                    Parse(file.rows[k].price[c], fprice(c))]]]]

\* every earlier row is kept, also one of the same date
CombinedAppendOnly(file, s) ==
    IF file.exists
    THEN concat(read_csv(file), summary_df(s))
    ELSE summary_df(s)

\* "if os.path.exists(history_path): ... else: combined = summary_df"
Combined(file, s) ==
    IF file.exists
    THEN LET existing == read_csv(file)
         IN  concat(IF \E k \in 1..Len(existing.rows) : existing.rows[k].date = s.date
                    THEN DropDate(existing, s.date)
                    ELSE existing,
                    summary_df(s))
    ELSE summary_df(s)

\* one run of the dashboard script reaching save_history
SaveHistory ==
    /\ saves < MaxSaves
    /\ \E s \in Summaries :
          /\ history' = to_csv(Combined(history, s))
          /\ last' = s
    /\ saves' = saves + 1
    /\ UNCHANGED <<disk, pc, exit, dry_run, no_targets, positions, usd_to_eur,
                   prices, targets, today, original_content, content, changes,
                   target_changes, wrote, updated, rerun, disk_before,
                   stepvars, preview>>

HistInit == Init /\ disk = NoFile

HistNext == SaveHistory

HistSpec == HistInit /\ [][HistNext]_vars

\* row r of a frame holds the values of row q (a summary, or a row of a frame
\* with fewer columns) and nothing else
Holds(r, q) ==
    /\ r.date = q.date
    /\ r.total_buy_value.kind # "nan"
    /\ r.total_buy_value.v = q.total_buy_value.v
    /\ \A c \in DOMAIN r.price :
          IF c \in DOMAIN q.price /\ q.price[c].kind # "nan"
          THEN r.price[c].kind # "nan" /\ r.price[c].v = q.price[c].v
          ELSE r.price[c].kind = "nan"
    /\ DOMAIN q.price \subseteq DOMAIN r.price

RowsOf(file) == IF file.exists THEN read_csv(file).rows ELSE <<>>

OtherDates(rows, d) ==
    LET Other(r) == r.date # d
    IN  SelectSeq(rows, Other)

C19_OneRowPerDate ==
    LET rows == RowsOf(history)
    IN  /\ (saves = 0) <=> ~history.exists
        /\ history.exists => Len(rows) \in 1..saves
        /\ \A k \in 1..Len(rows) : \A l \in 1..Len(rows) :
              k # l => rows[k].date # rows[l].date
        /\ history.exists =>
              \E k \in 1..Len(rows) :
                  rows[k].date = last.date /\ Holds(rows[k], last)

C19_OthersKept ==
    LET before == OtherDates(RowsOf(history), last'.date)
        after == OtherDates(RowsOf(history'), last'.date)
    IN  saves' = saves + 1 =>
           /\ Len(after) = Len(before)
           /\ \A k \in 1..Len(before) : Holds(after[k], before[k])

\* C19: starting from a missing history file, after any sequence of
\* save_history calls the history has at most one row per date, the row of
\* the latest call's date holds that call's summary, replacing an earlier
\* row of that date, and the rows of all other dates keep their values and
\* their order.
C19_HistoryRows == [](C19_OneRowPerDate) /\ [][C19_OthersKept]_vars

\* a call replaced the row of its date written by an earlier call, with another
\* summary, and the row of another date is still there, before it
C19_Witness ==
    /\ saves = 3 /\ history.exists
    /\ Len(history.rows) = 2
    /\ history.rows[2].date = last.date
    /\ history.rows[1].date # last.date
    /\ history.rows[1].total_buy_value.digits = 0
    /\ history.rows[1].total_buy_value.point
    /\ history.rows[1].price["A"].empty
    /\ last.total_buy_value.v # 0

====
